---------------------------- MODULE Spec2Model ----------------------------
(***************************************************************************)
(* The zustand application store of the pothole reporter                   *)
(* (src/src/utils/location.ts, lines 120-979): session, directory of       *)
(* accounts, reports with their votes and two status fields, the points /  *)
(* badge ledger kept inside the directory, and the notification list.      *)
(*                                                                         *)
(* Every store function is an operator from a store record to the store    *)
(* record that zustand's set() leaves behind; every action applies one     *)
(* store function to inputs drawn from small sets.                         *)
(*                                                                         *)
(* Abstractions: strings that no store function reads (names, phone,       *)
(* photos, message text, dates) are dropped; coordinates are integers in   *)
(* hundredths of a degree; ids made from Date.now()/Math.random() are      *)
(* <<prefix, n>> pairs with n drawn from a counter, i.e. always fresh.     *)
(***************************************************************************)
EXTENDS Integers, Sequences, FiniteSets, TLC

(***************************************************************************)
(* Bounds of the model.                                                    *)
(***************************************************************************)
MaxReports == 1      \* reports ever created
MaxNotifs  == 3      \* notifications ever created
MaxUsers   == 1      \* profiles ever created by createUser / createGovUser
MaxThanks  == 2      \* entries of one notification's complimentedBy

(***************************************************************************)
(* Values.                                                                 *)
(***************************************************************************)
NullId    == <<"null", 0>>
NullEmail == ""
Absent    == "absent"          \* a key that an updates object does not carry

NoLocation  == [defined |-> FALSE, lat |-> 0, lng |-> 0]
Loc(la, ln) == [defined |-> TRUE, lat |-> la, lng |-> ln]

\* userData: User | GovUser | null, as one record shape.  A GovUser has no
\* points and no badge: points reads as 0 under (points || 0), badge is
\* "undefined".
NullData == [kind |-> "null", id |-> NullId, points |-> 0, badge |-> "none",
             location |-> NoLocation]
UserData(id, points, badge) ==
    [kind |-> "user", id |-> id, points |-> points, badge |-> badge,
     location |-> NoLocation]
GovData(id, loc) ==
    [kind |-> "gov", id |-> id, points |-> 0, badge |-> "undefined",
     location |-> loc]

IsNull(u) == u.kind = "null"

AuthEntry(email, password, isGov, setup, userData) ==
    [email |-> email, password |-> password, isGov |-> isGov,
     hasCompletedSetup |-> setup, userData |-> userData]

\* The accounts that are always present.  The object's key order is the
\* order of this sequence.
defaultAuthenticatedUsers ==
    << AuthEntry("citizen@test.com", "password", FALSE, TRUE,
                 UserData(<<"test-citizen", 1>>, 25, "bronze")),
       AuthEntry("gov@test.com", "password", TRUE, TRUE,
                 GovData(<<"test-gov", 1>>, Loc(4071, -7401))),
       AuthEntry("admin@cityworks.gov", "CityAdmin2024!", TRUE, TRUE,
                 GovData(<<"gov-admin", 1>>, Loc(3405, -11824))),
       AuthEntry("roads@municipal.gov", "RoadMaint2024!", TRUE, TRUE,
                 GovData(<<"gov-roads", 1>>, Loc(4188, -8763))),
       AuthEntry("infrastructure@metro.gov", "MetroInfra2024!", TRUE, TRUE,
                 GovData(<<"gov-metro", 1>>, Loc(3974, -10499))),
       AuthEntry("public.works@county.gov", "CountyPW2024!", TRUE, TRUE,
                 GovData(<<"gov-county", 1>>, Loc(3345, -11207))) >>

(***************************************************************************)
(* Inputs.                                                                 *)
(***************************************************************************)
NewEmails == {"new@mail.com", "dept@mail.com"}
SeedEmails == {defaultAuthenticatedUsers[i].email :
                  i \in 1..Len(defaultAuthenticatedUsers)}
Emails == SeedEmails \cup NewEmails
\* The passwords tried: that of citizen@test.com and gov@test.com, and one
\* that no seed account has.
Passwords == {"password", "secret"}

\* Where a report can be: 1.4 km from the office of gov@test.com, and 22 km
\* north of it.
ReportLocations == {Loc(4070, -7400), Loc(4090, -7400)}
\* Where a newly created authority can have its office.
GovLocations == {Loc(4071, -7400)}

Votes == {"up", "down"}
VerifiedValues == {"pending", "verified", "rejected"}
FixingValues == {"pending", "in_progress", "resolved", "rejected"}

(***************************************************************************)
(* The store.                                                              *)
(***************************************************************************)
VARIABLES isLoggedIn, isGovUser, currentUser, govUser, userEmail,
          hasCompletedSetup, authenticatedUsers, reports, notifications,
          userClock, reportClock, notifClock

storeVars == <<isLoggedIn, isGovUser, currentUser, govUser, userEmail,
               hasCompletedSetup, authenticatedUsers, reports, notifications>>
vars == <<isLoggedIn, isGovUser, currentUser, govUser, userEmail,
          hasCompletedSetup, authenticatedUsers, reports, notifications,
          userClock, reportClock, notifClock>>

\* The store as one value: what get() returns.
store ==
    [isLoggedIn |-> isLoggedIn, isGovUser |-> isGovUser,
     currentUser |-> currentUser, govUser |-> govUser,
     userEmail |-> userEmail, hasCompletedSetup |-> hasCompletedSetup,
     authenticatedUsers |-> authenticatedUsers, reports |-> reports,
     notifications |-> notifications]

\* The store after the action: what set() leaves.
storeNext ==
    [isLoggedIn |-> isLoggedIn', isGovUser |-> isGovUser',
     currentUser |-> currentUser', govUser |-> govUser',
     userEmail |-> userEmail', hasCompletedSetup |-> hasCompletedSetup',
     authenticatedUsers |-> authenticatedUsers', reports |-> reports',
     notifications |-> notifications']

\* The store as create() builds it, over a given directory.
InitStore(users) ==
    /\ isLoggedIn = FALSE
    /\ isGovUser = FALSE
    /\ currentUser = NullData
    /\ govUser = NullData
    /\ userEmail = NullEmail
    /\ hasCompletedSetup = FALSE
    /\ authenticatedUsers = users
    /\ reports = << >>
    /\ notifications = << >>
    /\ reportClock = 0
    /\ notifClock = 0

\* The store after construction.
Init ==
    /\ InitStore(defaultAuthenticatedUsers)
    /\ userClock = 0

(***************************************************************************)
(* Helpers on sequences and on the directory.                              *)
(***************************************************************************)
Range(q) == {q[i] : i \in 1..Len(q)}

\* state.authenticatedUsers[email]: the index of the entry, 0 when absent.
AuthIndex(users, email) ==
    IF \E i \in 1..Len(users) : users[i].email = email
    THEN CHOOSE i \in 1..Len(users) : users[i].email = email
    ELSE 0

HasAuth(users, email) == AuthIndex(users, email) # 0

\* { ...authenticatedUsers, [email]: entry }: an existing key keeps its
\* place, a new key goes last.
PutAuth(users, entry) ==
    LET i == AuthIndex(users, entry.email)
    IN  IF i = 0 THEN Append(users, entry) ELSE [users EXCEPT ![i] = entry]

\* Object.keys(authenticatedUsers).find(email => userData && userData.id === id):
\* the index of the first entry whose profile has this id, 0 when none has.
OwnerIndex(users, id) ==
    IF \E i \in 1..Len(users) :
          ~IsNull(users[i].userData) /\ users[i].userData.id = id
    THEN CHOOSE i \in 1..Len(users) :
          /\ ~IsNull(users[i].userData) /\ users[i].userData.id = id
          /\ \A j \in 1..(i - 1) :
                IsNull(users[j].userData) \/ users[j].userData.id # id
    ELSE 0

(***************************************************************************)
(* Session.                                                                *)
(***************************************************************************)
\* register(email, password, isGov): refused for a known email.
registerOk(s, email) == ~HasAuth(s.authenticatedUsers, email)

register(s, email, password, isGov) ==
    IF ~registerOk(s, email) THEN s
    ELSE [s EXCEPT
            !.authenticatedUsers =
                PutAuth(@, AuthEntry(email, password, isGov, FALSE, NullData)),
            !.isLoggedIn = TRUE,
            !.isGovUser = isGov,
            !.userEmail = email]

signInOk(s, email, password) ==
    /\ HasAuth(s.authenticatedUsers, email)
    /\ s.authenticatedUsers[AuthIndex(s.authenticatedUsers, email)].password
          = password

\* signIn without the comparison of passwords: a known email is enough.
signInAnyPassword(s, email, password) ==
    IF ~HasAuth(s.authenticatedUsers, email) THEN s
    ELSE LET user == s.authenticatedUsers[AuthIndex(s.authenticatedUsers, email)]
         IN  [s EXCEPT
                !.isLoggedIn = TRUE,
                !.isGovUser = user.isGov,
                !.hasCompletedSetup = user.hasCompletedSetup,
                !.userEmail = email,
                !.currentUser = IF ~user.isGov THEN user.userData ELSE NullData,
                !.govUser = IF user.isGov THEN user.userData ELSE NullData]

signIn(s, email, password) ==
    IF ~signInOk(s, email, password) THEN s
    ELSE LET user == s.authenticatedUsers[AuthIndex(s.authenticatedUsers, email)]
         IN  [s EXCEPT
                !.isLoggedIn = TRUE,
                !.isGovUser = user.isGov,
                !.hasCompletedSetup = user.hasCompletedSetup,
                !.userEmail = email,
                !.currentUser = IF ~user.isGov THEN user.userData ELSE NullData,
                !.govUser = IF user.isGov THEN user.userData ELSE NullData]

logout(s) ==
    [s EXCEPT
        !.isLoggedIn = FALSE,
        !.isGovUser = FALSE,
        !.currentUser = NullData,
        !.govUser = NullData,
        !.hasCompletedSetup = FALSE,
        !.userEmail = NullEmail]

\* createUser(userData): the profile of the account in session, with a
\* fresh id, no points and no badge.
createUser(s, id) ==
    IF s.userEmail = NullEmail THEN s
    ELSE LET updatedUser == UserData(id, 0, "none")
             i == AuthIndex(s.authenticatedUsers, s.userEmail)
         IN  [s EXCEPT
                !.currentUser = updatedUser,
                !.hasCompletedSetup = TRUE,
                !.authenticatedUsers =
                    [@ EXCEPT ![i].hasCompletedSetup = TRUE,
                              ![i].userData = updatedUser]]

createGovUser(s, id, loc) ==
    IF s.userEmail = NullEmail THEN s
    ELSE LET updatedUser == GovData(id, loc)
             i == AuthIndex(s.authenticatedUsers, s.userEmail)
         IN  [s EXCEPT
                !.govUser = updatedUser,
                !.hasCompletedSetup = TRUE,
                !.authenticatedUsers =
                    [@ EXCEPT ![i].hasCompletedSetup = TRUE,
                              ![i].userData = updatedUser]]

\* updateUserProfile(updates): updates carries name, age and email, which
\* the model drops, so the merged profile is currentUser itself.
updateUserProfile(s) ==
    IF s.userEmail = NullEmail \/ IsNull(s.currentUser) THEN s
    ELSE LET i == AuthIndex(s.authenticatedUsers, s.userEmail)
         IN  [s EXCEPT !.authenticatedUsers = [@ EXCEPT ![i].userData = s.currentUser]]

\* initAuth(): the session of the account named by userEmail, read back
\* from the directory; nothing without an email or without its entry.
initAuth(s) ==
    IF s.userEmail = NullEmail \/ ~HasAuth(s.authenticatedUsers, s.userEmail)
    THEN s
    ELSE LET user == s.authenticatedUsers[AuthIndex(s.authenticatedUsers,
                                                    s.userEmail)]
         IN  [s EXCEPT
                !.isLoggedIn = TRUE,
                !.isGovUser = user.isGov,
                !.hasCompletedSetup = user.hasCompletedSetup,
                !.currentUser = IF ~user.isGov THEN user.userData ELSE NullData,
                !.govUser = IF user.isGov THEN user.userData ELSE NullData]

\* { ...defaults, ...persisted }: the keys of defaults in their order, each
\* with the persisted entry when there is one, then the other persisted
\* keys in their order.
MergeAuth(defaults, persisted) ==
    LET Added(e) == ~HasAuth(defaults, e.email)
    IN  [i \in 1..Len(defaults) |->
            IF HasAuth(persisted, defaults[i].email)
            THEN persisted[AuthIndex(persisted, defaults[i].email)]
            ELSE defaults[i]]
        \o SelectSeq(persisted, Added)

\* The userId of a report made without a session by an older version.
AnonymousId == <<"anonymous", 0>>

\* The store after a page load: the persisted part of s (directory, email,
\* reports, notifications) merged into the store as create() builds it.
rehydrate(s) ==
    LET Named(r) == r.userId # AnonymousId
    IN  [isLoggedIn |-> FALSE, isGovUser |-> FALSE,
         currentUser |-> NullData, govUser |-> NullData,
         userEmail |-> s.userEmail, hasCompletedSetup |-> FALSE,
         authenticatedUsers |->
             MergeAuth(defaultAuthenticatedUsers, s.authenticatedUsers),
         reports |-> SelectSeq(s.reports, Named),
         notifications |-> s.notifications]

(***************************************************************************)
(* Ledger: badge from points.                                              *)
(***************************************************************************)
BronzeAt == 25
SilverAt == 50
GoldAt   == 100

\* getBadge with the silver threshold excluded: silver starts one late.
getBadgeStrict(points) ==
    IF points >= GoldAt THEN "gold"
    ELSE IF points > SilverAt THEN "silver"
    ELSE IF points >= BronzeAt THEN "bronze"
    ELSE "none"

getBadge(points) ==
    IF points >= GoldAt THEN "gold"
    ELSE IF points >= SilverAt THEN "silver"
    ELSE IF points >= BronzeAt THEN "bronze"
    ELSE "none"

\* The award badge with the bronze threshold excluded: bronze starts one
\* late.
awardBadgeLate(oldBadge, newPoints) ==
    IF newPoints >= GoldAt THEN "gold"
    ELSE IF newPoints >= SilverAt THEN "silver"
    ELSE IF newPoints > BronzeAt THEN "bronze"
    ELSE oldBadge

\* The badge computed inline where updateReport awards a point: below the
\* bronze threshold the badge is left as it was.
awardBadge(oldBadge, newPoints) ==
    IF newPoints >= GoldAt THEN "gold"
    ELSE IF newPoints >= SilverAt THEN "silver"
    ELSE IF newPoints >= BronzeAt THEN "bronze"
    ELSE oldBadge

\* The badge computed inline where deleteReport takes a point back.
revokeBadge(newPoints) ==
    IF newPoints >= GoldAt THEN "gold"
    ELSE IF newPoints >= SilverAt THEN "silver"
    ELSE IF newPoints >= BronzeAt THEN "bronze"
    ELSE "none"

awardPoints(points) == points + 1

\* The revoke that takes nothing back.
revokePointsNone(points) == points

revokePoints(points) == IF points - 1 > 0 THEN points - 1 ELSE 0

(***************************************************************************)
(* Distance between a report and an office: the planar formula of          *)
(* addReport and updateReport, in integers.  Coordinates are hundredths    *)
(* of a degree, so a term is in hundredths of a kilometre.                 *)
(***************************************************************************)
KmPerDegree == 111
RadiusKm    == 5

Abs(n) == IF n < 0 THEN 0 - n ELSE n

\* 1000 * Math.cos(lat * Math.PI / 180), for the latitudes of the model.
CosMilli(lat) ==
    CASE lat = 4071 -> 758
      [] lat = 4070 -> 758
      [] lat = 4090 -> 756
      [] lat = 3405 -> 829
      [] lat = 4188 -> 745
      [] lat = 3974 -> 769
      [] lat = 3345 -> 834

\* distance <= 5, with distance = sqrt(latTerm^2 + lngTerm^2).  A term
\* above the radius decides alone, which keeps the squares small.
WithinRadius(reportLoc, govLoc) ==
    LET latTerm == Abs(reportLoc.lat - govLoc.lat) * KmPerDegree
        lngTerm == (Abs(reportLoc.lng - govLoc.lng) * KmPerDegree
                       * CosMilli(govLoc.lat)) \div 1000
        radius  == RadiusKm * 100
    IN  /\ latTerm <= radius
        /\ lngTerm <= radius
        /\ latTerm * latTerm + lngTerm * lngTerm <= radius * radius

(***************************************************************************)
(* Reports and notifications.                                              *)
(***************************************************************************)
Report(id, userId, loc) ==
    [id |-> id, userId |-> userId, location |-> loc,
     upvotes |-> 0, downvotes |-> 0, upvotedBy |-> << >>, downvotedBy |-> << >>,
     verified |-> "pending", fixingStatus |-> "pending"]

Notif(type, reportId, userId, govUserId) ==
    [id |-> NullId, type |-> type, reportId |-> reportId, userId |-> userId,
     govUserId |-> govUserId, read |-> FALSE, complimentedBy |-> << >>]

\* The n-th notification made by one call takes the n-th fresh id.
WithIds(notifs, base) ==
    [i \in 1..Len(notifs) |-> [notifs[i] EXCEPT !.id = <<"notif", base + i>>]]

HasReport(rs, reportId) == \E i \in 1..Len(rs) : rs[i].id = reportId

\* reports.find(r => r.id === reportId), for a report that is there.
FindReport(rs, reportId) ==
    rs[CHOOSE i \in 1..Len(rs) :
          /\ rs[i].id = reportId
          /\ \A j \in 1..(i - 1) : rs[j].id # reportId]

Without(ids, id) ==
    LET Keep(x) == x # id IN SelectSeq(ids, Keep)

Includes(ids, id) == \E i \in 1..Len(ids) : ids[i] = id

\* One notification per citizen profile other than the reporter.
CitizenNotifs(users, type, reportId, reporterId) ==
    LET Wanted(u) == ~IsNull(u.userData) /\ u.userData.id # reporterId /\ ~u.isGov
        picked == SelectSeq(users, Wanted)
    IN  [i \in 1..Len(picked) |->
            Notif(type, reportId, picked[i].userData.id, NullId)]

\* The authority profiles other than exceptId.
GovEntries(users, exceptId) ==
    LET Wanted(u) == ~IsNull(u.userData) /\ u.isGov /\ u.userData.id # exceptId
    IN  SelectSeq(users, Wanted)

\* The authority fan-out without the radius: every authority with an office
\* is notified.
GovNotifsAnywhere(govs, type, reportId, loc) ==
    LET Near(u) == u.userData.location.defined
        picked == SelectSeq(govs, Near)
    IN  [i \in 1..Len(picked) |->
            Notif(type, reportId, NullId, picked[i].userData.id)]

\* One notification per authority within the radius of the report.
GovNotifs(govs, type, reportId, loc) ==
    LET Near(u) == u.userData.location.defined
                      /\ WithinRadius(loc, u.userData.location)
        picked == SelectSeq(govs, Near)
    IN  [i \in 1..Len(picked) |->
            Notif(type, reportId, NullId, picked[i].userData.id)]

\* addReport as it was before points were tied to verification: the
\* reporter is given a point for the submission.
addReportAwarding(s, id, loc, base) ==
    IF IsNull(s.currentUser) THEN s
    ELSE LET newReport == Report(id, s.currentUser.id, loc)
             allUserNotifications ==
                 CitizenNotifs(s.authenticatedUsers, "new_report", id,
                               newReport.userId)
                 \o GovNotifs(GovEntries(s.authenticatedUsers, newReport.userId),
                              "new_report", id, loc)
             i == OwnerIndex(s.authenticatedUsers, s.currentUser.id)
         IN  [s EXCEPT
                !.reports = <<newReport>> \o @,
                !.notifications = WithIds(allUserNotifications, base) \o @,
                !.authenticatedUsers =
                    IF i = 0 THEN @
                    ELSE [@ EXCEPT ![i].userData.points = @ + 1]]

\* addReport of the older store: without a citizen in session the report
\* is made all the same, in the name of nobody.
addReportAnonymous(s, id, loc, base) ==
    LET reporterId == IF IsNull(s.currentUser) THEN AnonymousId
                      ELSE s.currentUser.id
        newReport == Report(id, reporterId, loc)
        allUserNotifications ==
            CitizenNotifs(s.authenticatedUsers, "new_report", id, reporterId)
            \o GovNotifs(GovEntries(s.authenticatedUsers, reporterId),
                         "new_report", id, loc)
    IN  [s EXCEPT
           !.reports = <<newReport>> \o @,
           !.notifications = WithIds(allUserNotifications, base) \o @]

\* addReport(reportData): refused when no citizen is in session.
addReport(s, id, loc, base) ==
    IF IsNull(s.currentUser) THEN s
    ELSE LET newReport == Report(id, s.currentUser.id, loc)
             allUserNotifications ==
                 CitizenNotifs(s.authenticatedUsers, "new_report", id,
                               newReport.userId)
                 \o GovNotifs(GovEntries(s.authenticatedUsers, newReport.userId),
                              "new_report", id, loc)
         IN  [s EXCEPT
                !.reports = <<newReport>> \o @,
                !.notifications = WithIds(allUserNotifications, base) \o @]

\* The revoke that takes the point back and leaves the badge as it was.
RevokedUserKeepsBadge(owner) ==
    [owner EXCEPT !.points = revokePoints(owner.points)]

\* The profile of the report's owner with one point taken back.
RevokedUser(owner) ==
    [owner EXCEPT !.points = revokePoints(owner.points),
                  !.badge = revokeBadge(revokePoints(owner.points))]

\* The award left for a later step: the profile as it was.
AwardedUserLater(owner) == owner

\* The profile of the report's owner with one point more.
AwardedUser(owner) ==
    [owner EXCEPT !.points = awardPoints(owner.points),
                  !.badge = awardBadge(owner.badge, awardPoints(owner.points))]

\* The owner's profile replaced in the directory only: currentUser keeps
\* the profile it had.
WithOwnerInDirectory(s, i, updatedUser) ==
    [s EXCEPT !.authenticatedUsers = [@ EXCEPT ![i].userData = updatedUser]]

\* The store with the owner's profile replaced, in the directory and, when
\* the owner is the citizen in session, in currentUser.
WithOwner(s, i, updatedUser) ==
    [s EXCEPT
        !.currentUser = IF ~IsNull(@) /\ @.id = updatedUser.id
                        THEN updatedUser ELSE @,
        !.authenticatedUsers = [@ EXCEPT ![i].userData = updatedUser]]

RemoveReport(rs, reportId) ==
    LET Keep(r) == r.id # reportId IN SelectSeq(rs, Keep)

deleteReport(s, reportId) ==
    LET removed == [s EXCEPT !.reports = RemoveReport(@, reportId)]
    IN  IF HasReport(s.reports, reportId)
           /\ FindReport(s.reports, reportId).verified = "verified"
        THEN LET i == OwnerIndex(s.authenticatedUsers,
                                 FindReport(s.reports, reportId).userId)
             IN  IF i = 0 THEN removed
                 ELSE WithOwner(removed, i,
                                RevokedUser(s.authenticatedUsers[i].userData))
        ELSE removed

\* The updates without the sync: the fixing status is the one supplied, or
\* none.
SyncedFixingNever(v, f) == f

\* { ...report, ...syncedUpdates }: a rejected verification that comes
\* without a fixing status carries fixingStatus 'rejected' with it.
SyncedFixing(v, f) == IF v = "rejected" /\ f = Absent THEN "rejected" ELSE f

MergeUpdates(report, v, f) ==
    [report EXCEPT
        !.verified = IF v = Absent THEN @ ELSE v,
        !.fixingStatus = IF SyncedFixing(v, f) = Absent THEN @
                         ELSE SyncedFixing(v, f)]

UpdatedReports(rs, reportId, v, f) ==
    [i \in 1..Len(rs) |->
        IF rs[i].id = reportId THEN MergeUpdates(rs[i], v, f) ELSE rs[i]]

\* The status notifications with the resolver left in the fan-out: the
\* authority who resolved the report is notified like the others in range.
StatusNotifsToResolver(s, report, v, f) ==
    LET info == <<Notif("info", report.id, report.userId, NullId)>>
        resolved == <<Notif("resolved", report.id, report.userId, s.govUser.id)>>
        allUserNotifications ==
            CitizenNotifs(s.authenticatedUsers, "info", report.id, report.userId)
            \o GovNotifs(GovEntries(s.authenticatedUsers, NullId),
                         "info", report.id, report.location)
    IN  (IF f = "resolved" THEN allUserNotifications \o resolved ELSE << >>)
        \o (IF f = "in_progress" \/ f = "rejected" THEN info ELSE << >>)
        \o (IF v = "verified" \/ v = "rejected" THEN info ELSE << >>)

\* The notifications one updateReport call puts in front of the list,
\* newest first: those of the fixing status before that of the verification;
\* on 'resolved', those to the other citizens and to the authorities in
\* range before the one to the reporter.
StatusNotifs(s, report, v, f) ==
    LET info == <<Notif("info", report.id, report.userId, NullId)>>
        resolved == <<Notif("resolved", report.id, report.userId, s.govUser.id)>>
        allUserNotifications ==
            CitizenNotifs(s.authenticatedUsers, "info", report.id, report.userId)
            \o GovNotifs(GovEntries(s.authenticatedUsers, s.govUser.id),
                         "info", report.id, report.location)
    IN  (IF f = "resolved" THEN allUserNotifications \o resolved ELSE << >>)
        \o (IF f = "in_progress" \/ f = "rejected" THEN info ELSE << >>)
        \o (IF v = "verified" \/ v = "rejected" THEN info ELSE << >>)

\* govData.location.lat of an authority entry whose profile has no location
\* is a TypeError: set() then changes nothing.
ResolveThrows(s) ==
    \E u \in Range(GovEntries(s.authenticatedUsers, s.govUser.id)) :
        ~u.userData.location.defined

\* updateReport(reportId, updates), updates = {verified?: v, fixingStatus?: f}.
updateReport(s, reportId, v, f, base) ==
    IF ~HasReport(s.reports, reportId) THEN s
    ELSE IF f = "resolved" /\ ResolveThrows(s) THEN s
    ELSE LET updatedReports == UpdatedReports(s.reports, reportId, v, f)
             updatedReport == FindReport(updatedReports, reportId)
             notified ==
                 [s EXCEPT
                    !.reports = updatedReports,
                    !.notifications =
                        WithIds(StatusNotifs(s, updatedReport, v, f), base) \o @]
             i == OwnerIndex(s.authenticatedUsers, updatedReport.userId)
         IN  IF v = "verified" /\ i # 0
             THEN WithOwner(notified, i,
                            AwardedUser(s.authenticatedUsers[i].userData))
             ELSE notified

\* voteReport with the switch of a vote forgotten: the new vote is added
\* and the opposite one is left where it was.
VotedReportKeepsOpposite(report, uid, vote) ==
    LET hasUpvoted == Includes(report.upvotedBy, uid)
        hasDownvoted == Includes(report.downvotedBy, uid)
        Dec(n) == IF n - 1 > 0 THEN n - 1 ELSE 0
    IN  IF vote = "up"
        THEN IF hasUpvoted
             THEN [report EXCEPT !.upvotes = Dec(@),
                                 !.upvotedBy = Without(@, uid)]
             ELSE [report EXCEPT !.upvotes = @ + 1,
                                 !.upvotedBy = Append(@, uid)]
        ELSE IF hasDownvoted
             THEN [report EXCEPT !.downvotes = Dec(@),
                                 !.downvotedBy = Without(@, uid)]
             ELSE [report EXCEPT !.downvotes = @ + 1,
                                 !.downvotedBy = Append(@, uid)]

\* voteReport without the toggle: a vote in the direction already held is
\* counted again instead of being taken back.
VotedReportNoToggle(report, uid, vote) ==
    LET hasUpvoted == Includes(report.upvotedBy, uid)
        hasDownvoted == Includes(report.downvotedBy, uid)
        Dec(n) == IF n - 1 > 0 THEN n - 1 ELSE 0
    IN  IF vote = "up"
        THEN [report EXCEPT
                !.upvotes = @ + 1,
                !.downvotes = IF hasDownvoted THEN Dec(@) ELSE @,
                !.upvotedBy = Append(@, uid),
                !.downvotedBy = IF hasDownvoted THEN Without(@, uid) ELSE @]
        ELSE [report EXCEPT
                !.downvotes = @ + 1,
                !.upvotes = IF hasUpvoted THEN Dec(@) ELSE @,
                !.downvotedBy = Append(@, uid),
                !.upvotedBy = IF hasUpvoted THEN Without(@, uid) ELSE @]

\* The report after voteReport by the citizen uid.
VotedReport(report, uid, vote) ==
    LET hasUpvoted == Includes(report.upvotedBy, uid)
        hasDownvoted == Includes(report.downvotedBy, uid)
        Dec(n) == IF n - 1 > 0 THEN n - 1 ELSE 0
    IN  IF vote = "up"
        THEN IF hasUpvoted
             THEN [report EXCEPT !.upvotes = Dec(@),
                                 !.upvotedBy = Without(@, uid)]
             ELSE [report EXCEPT
                     !.upvotes = @ + 1,
                     !.downvotes = IF hasDownvoted THEN Dec(@) ELSE @,
                     !.upvotedBy = Append(@, uid),
                     !.downvotedBy = IF hasDownvoted THEN Without(@, uid) ELSE @]
        ELSE IF hasDownvoted
             THEN [report EXCEPT !.downvotes = Dec(@),
                                 !.downvotedBy = Without(@, uid)]
             ELSE [report EXCEPT
                     !.downvotes = @ + 1,
                     !.upvotes = IF hasUpvoted THEN Dec(@) ELSE @,
                     !.downvotedBy = Append(@, uid),
                     !.upvotedBy = IF hasUpvoted THEN Without(@, uid) ELSE @]

\* voteReport(reportId, vote): nothing without a citizen in session.
voteReport(s, reportId, vote) ==
    IF IsNull(s.currentUser) THEN s
    ELSE [s EXCEPT !.reports =
            [i \in 1..Len(@) |->
                IF @[i].id # reportId THEN @[i]
                ELSE VotedReport(@[i], s.currentUser.id, vote)]]

HasNotif(ns, notifId) == \E i \in 1..Len(ns) : ns[i].id = notifId

FindNotif(ns, notifId) ==
    ns[CHOOSE i \in 1..Len(ns) :
          /\ ns[i].id = notifId
          /\ \A j \in 1..(i - 1) : ns[j].id # notifId]

\* The resolved notification notifId with userId added to complimentedBy.
Complimented(ns, notifId, userId) ==
    [i \in 1..Len(ns) |->
        IF ns[i].id = notifId /\ ns[i].type = "resolved"
        THEN [ns[i] EXCEPT !.complimentedBy = Append(@, userId)]
        ELSE ns[i]]

\* The compliment addressed to the reporter as well as to the authority.
ComplimentNotifsToReporter(ns, notifId) ==
    IF HasNotif(ns, notifId) /\ FindNotif(ns, notifId).govUserId # NullId
    THEN <<Notif("compliment", NullId, FindNotif(ns, notifId).userId,
                 FindNotif(ns, notifId).govUserId)>>
    ELSE << >>

\* The compliment sent to the authority named by the notification notifId,
\* whatever the type of that notification.
ComplimentNotifs(ns, notifId) ==
    IF HasNotif(ns, notifId) /\ FindNotif(ns, notifId).govUserId # NullId
    THEN <<Notif("compliment", NullId, NullId, FindNotif(ns, notifId).govUserId)>>
    ELSE << >>

sendComplimentToGov(s, notifId, userId, base) ==
    [s EXCEPT !.notifications =
        Complimented(@, notifId, userId)
        \o WithIds(ComplimentNotifs(@, notifId), base)]

(***************************************************************************)
(* Directories the store can hold once accounts have been registered:      *)
(* the seed accounts alone; with a citizen who registered and set up a     *)
(* profile (register, createUser, logout) and has had reports verified;    *)
(* and with an authority who did the same (register, createGovUser,        *)
(* logout) with an office 0.8 km from that of gov@test.com.                *)
(***************************************************************************)
RECURSIVE AwardedTimes(_, _)
\* The profile after n awards, one per verified report.  The n awards are
\* made half by half, which keeps the evaluation shallow.
AwardedTimes(u, n) ==
    IF n = 0 THEN u
    ELSE IF n = 1 THEN AwardedUser(u)
    ELSE CHOOSE w \in {AwardedTimes(v, n - (n \div 2)) :
                           v \in {AwardedTimes(u, n \div 2)}} : TRUE

\* The profile createUser makes, after n verified reports.
EarnedProfile(id, n) == AwardedTimes(UserData(id, 0, "none"), n)

\* The balances the registered citizen can start from: none yet, and one
\* short of each badge.
StartPoints == {0, 24, 49, 99}

RegisteredCitizen(n) ==
    AuthEntry("new@mail.com", "secret", FALSE, TRUE,
              EarnedProfile(<<"user", 1>>, n))

RegisteredGov ==
    AuthEntry("dept@mail.com", "secret", TRUE, TRUE,
              GovData(<<"gov", 2>>, Loc(4071, -7400)))

Directories ==
    {defaultAuthenticatedUsers}
    \cup {defaultAuthenticatedUsers \o <<RegisteredCitizen(n)>> : n \in StartPoints}
    \cup {defaultAuthenticatedUsers \o <<RegisteredCitizen(0), RegisteredGov>>}

InitPopulated ==
    \E users \in Directories :
        /\ InitStore(users)
        /\ userClock = Len(users) - Len(defaultAuthenticatedUsers)

(***************************************************************************)
(* Actions: one per store function.                                        *)
(***************************************************************************)
ReportIds == {<<"report", n>> : n \in 1..MaxReports}
NotifIds == {<<"notif", n>> : n \in 1..MaxNotifs}

\* set(): the store becomes s2.
Commit(s2) ==
    /\ isLoggedIn' = s2.isLoggedIn
    /\ isGovUser' = s2.isGovUser
    /\ currentUser' = s2.currentUser
    /\ govUser' = s2.govUser
    /\ userEmail' = s2.userEmail
    /\ hasCompletedSetup' = s2.hasCompletedSetup
    /\ authenticatedUsers' = s2.authenticatedUsers
    /\ reports' = s2.reports
    /\ notifications' = s2.notifications

\* The notifications made by the call are within the bound, and take their
\* ids from the counter.
CommitNotifs(s2) ==
    LET made == Len(s2.notifications) - Len(notifications)
    IN  /\ notifClock + made <= MaxNotifs
        /\ notifClock' = notifClock + made
        /\ Commit(s2)

Register ==
    \E email \in Emails, password \in Passwords, isGov \in BOOLEAN :
        /\ Commit(register(store, email, password, isGov))
        /\ UNCHANGED <<userClock, reportClock, notifClock>>

SignIn ==
    \E email \in Emails, password \in Passwords :
        /\ Commit(signIn(store, email, password))
        /\ UNCHANGED <<userClock, reportClock, notifClock>>

Logout ==
    /\ Commit(logout(store))
    /\ UNCHANGED <<userClock, reportClock, notifClock>>

CreateUser ==
    /\ userClock < MaxUsers
    /\ Commit(createUser(store, <<"user", userClock + 1>>))
    /\ userClock' = userClock + 1
    /\ UNCHANGED <<reportClock, notifClock>>

CreateGovUser ==
    \E loc \in GovLocations :
        /\ userClock < MaxUsers
        /\ Commit(createGovUser(store, <<"gov", userClock + 1>>, loc))
        /\ userClock' = userClock + 1
        /\ UNCHANGED <<reportClock, notifClock>>

UpdateUserProfile ==
    /\ Commit(updateUserProfile(store))
    /\ UNCHANGED <<userClock, reportClock, notifClock>>

InitAuth ==
    /\ Commit(initAuth(store))
    /\ UNCHANGED <<userClock, reportClock, notifClock>>

\* The page is loaded again.
Rehydrate ==
    /\ Commit(rehydrate(store))
    /\ UNCHANGED <<userClock, reportClock, notifClock>>

AddReport ==
    \E loc \in ReportLocations :
        /\ reportClock < MaxReports
        /\ CommitNotifs(addReport(store, <<"report", reportClock + 1>>, loc,
                                  notifClock))
        /\ reportClock' = reportClock + 1
        /\ UNCHANGED userClock

DeleteReport ==
    \E reportId \in ReportIds :
        /\ Commit(deleteReport(store, reportId))
        /\ UNCHANGED <<userClock, reportClock, notifClock>>

UpdateReport ==
    \E reportId \in ReportIds,
       v \in VerifiedValues \cup {Absent}, f \in FixingValues \cup {Absent} :
        /\ v # Absent \/ f # Absent
        /\ CommitNotifs(updateReport(store, reportId, v, f, notifClock))
        /\ UNCHANGED <<userClock, reportClock>>

VoteReport ==
    \E reportId \in ReportIds, vote \in Votes :
        /\ Commit(voteReport(store, reportId, vote))
        /\ UNCHANGED <<userClock, reportClock, notifClock>>

\* The ids a caller can pass as the complimenting citizen.
CitizenIds ==
    {authenticatedUsers[i].userData.id : i \in
        {j \in 1..Len(authenticatedUsers) :
            authenticatedUsers[j].userData.kind = "user"}}

SendComplimentToGov ==
    \E notifId \in NotifIds, userId \in CitizenIds :
        /\ \A n \in Range(notifications) : Len(n.complimentedBy) < MaxThanks
        /\ CommitNotifs(sendComplimentToGov(store, notifId, userId, notifClock))
        /\ UNCHANGED <<userClock, reportClock>>

\* Accounts: the login page, the profile set-up and the profile page.
NextSession ==
    \/ Register
    \/ SignIn
    \/ Logout
    \/ CreateUser
    \/ CreateGovUser
    \/ UpdateUserProfile
    \/ InitAuth
    \/ Rehydrate

SpecSession == Init /\ [][NextSession]_vars

\* Reports, votes, ledger and notifications, in the sessions of the
\* accounts of the directory.
Next ==
    \/ SignIn
    \/ Logout
    \/ UpdateUserProfile
    \/ AddReport
    \/ DeleteReport
    \/ UpdateReport
    \/ VoteReport
    \/ SendComplimentToGov

Spec == InitPopulated /\ [][Next]_vars

\* The same with page loads in between: the session is lost and read back
\* from the persisted email.
NextReload ==
    \/ SignIn
    \/ Logout
    \/ InitAuth
    \/ Rehydrate
    \/ UpdateUserProfile
    \/ AddReport
    \/ DeleteReport
    \/ UpdateReport
    \/ VoteReport
    \/ SendComplimentToGov

SpecReload == InitPopulated /\ [][NextReload]_vars

(***************************************************************************)
(* The ledger alone: the award and the revoke of one point, applied to the *)
(* profile of one citizen over every balance up to MaxPoints.              *)
(***************************************************************************)
MaxPoints == 120

LedgerIndex == AuthIndex(authenticatedUsers, "new@mail.com")

InitLedger ==
    /\ InitStore(defaultAuthenticatedUsers \o <<RegisteredCitizen(0)>>)
    /\ userClock = 1

LedgerAward ==
    /\ authenticatedUsers[LedgerIndex].userData.points < MaxPoints
    /\ Commit(WithOwner(store, LedgerIndex,
                        AwardedUser(authenticatedUsers[LedgerIndex].userData)))
    /\ UNCHANGED <<userClock, reportClock, notifClock>>

LedgerRevoke ==
    /\ Commit(WithOwner(store, LedgerIndex,
                        RevokedUser(authenticatedUsers[LedgerIndex].userData)))
    /\ UNCHANGED <<userClock, reportClock, notifClock>>

NextLedger ==
    \/ LedgerAward
    \/ LedgerRevoke

SpecLedger == InitLedger /\ [][NextLedger]_vars

(***************************************************************************)
(* The inbox: what a session sees of the notifications, and the marking    *)
(* and deleting of them.  An id that is missing (undefined) equals the id  *)
(* of a session that is missing (currentUser?.id, govUser?.id).            *)
(***************************************************************************)
\* filteredNotifications of the notifications page and userNotifications of
\* the bell: whether the session of s is shown n.
Shown(s, n) ==
    IF s.isGovUser /\ ~IsNull(s.govUser)
    THEN n.govUserId = s.govUser.id
    ELSE IF ~IsNull(s.currentUser)
    THEN (n.userId = s.currentUser.id \/ n.userId = NullId)
            /\ n.type # "compliment"
    ELSE FALSE

filteredNotifications(s) ==
    LET Mine(n) == Shown(s, n) IN SelectSeq(s.notifications, Mine)

\* addNotification(notif): the notification goes in front of the list,
\* unread, with a fresh id.
addNotification(s, notif, base) ==
    [s EXCEPT !.notifications = WithIds(<<notif>>, base) \o @]

\* The test of markNotificationRead and markAllNotificationsRead.
Marks(s, n) ==
    \/ ~s.isGovUser /\ (n.userId = NullId \/ n.userId = s.currentUser.id)
    \/ s.isGovUser /\ n.govUserId = s.govUser.id

\* markNotificationRead with the id test dropped: every notification that
\* passes the recipient test is marked.
markNotificationReadAnyId(s, id) ==
    [s EXCEPT !.notifications =
        [i \in 1..Len(@) |->
            IF Marks(s, @[i]) THEN [@[i] EXCEPT !.read = TRUE] ELSE @[i]]]

markNotificationRead(s, id) ==
    [s EXCEPT !.notifications =
        [i \in 1..Len(@) |->
            IF @[i].id = id /\ Marks(s, @[i])
            THEN [@[i] EXCEPT !.read = TRUE] ELSE @[i]]]

markAllNotificationsRead(s) ==
    [s EXCEPT !.notifications =
        [i \in 1..Len(@) |->
            IF Marks(s, @[i]) THEN [@[i] EXCEPT !.read = TRUE] ELSE @[i]]]

\* The test of deleteNotification: whether the filter drops n.
Deletes(s, n) ==
    IF s.isGovUser /\ ~IsNull(s.govUser)
    THEN n.govUserId = s.govUser.id
    ELSE IF ~IsNull(s.currentUser)
    THEN (n.userId = s.currentUser.id \/ n.userId = NullId)
            /\ n.type # "compliment"
    ELSE FALSE

deleteNotification(s, id) ==
    LET Keep(n) == n.id # id \/ ~Deletes(s, n)
    IN  [s EXCEPT !.notifications = SelectSeq(@, Keep)]

MarkNotificationRead ==
    \E id \in NotifIds :
        /\ Commit(markNotificationRead(store, id))
        /\ UNCHANGED <<userClock, reportClock, notifClock>>

MarkAllNotificationsRead ==
    /\ Commit(markAllNotificationsRead(store))
    /\ UNCHANGED <<userClock, reportClock, notifClock>>

DeleteNotification ==
    \E id \in NotifIds :
        /\ Commit(deleteNotification(store, id))
        /\ UNCHANGED <<userClock, reportClock, notifClock>>

\* Reports, their notifications and the inbox of each session.
NextInbox ==
    \/ SignIn
    \/ Logout
    \/ AddReport
    \/ UpdateReport
    \/ SendComplimentToGov
    \/ MarkNotificationRead
    \/ MarkAllNotificationsRead
    \/ DeleteNotification

SpecInbox == InitPopulated /\ [][NextInbox]_vars

(***************************************************************************)
(* Properties.                                                             *)
(***************************************************************************)
NoDuplicates(ids) ==
    \A i, j \in 1..Len(ids) : ids[i] = ids[j] => i = j

\* What a report shows of its votes: the two sets and the two counters.
VoteView(report) ==
    [up |-> Range(report.upvotedBy), down |-> Range(report.downvotedBy),
     upvotes |-> report.upvotes, downvotes |-> report.downvotes]

VoteViews(rs) == [i \in 1..Len(rs) |-> VoteView(rs[i])]

\* C1: every report's upvotes is the number of ids in upvotedBy, its
\* downvotes the number of ids in downvotedBy, no id is twice in either
\* list, and no id is in both lists.
C1_VotesConsistent ==
    \A r \in Range(reports) :
        /\ r.upvotes = Len(r.upvotedBy)
        /\ r.downvotes = Len(r.downvotedBy)
        /\ NoDuplicates(r.upvotedBy)
        /\ NoDuplicates(r.downvotedBy)
        /\ Range(r.upvotedBy) \cap Range(r.downvotedBy) = {}

\* Two citizens have voted on one report, one up and one down.
C1_Witness ==
    \E r \in Range(reports) :
        /\ Len(r.upvotedBy) = 1
        /\ Len(r.downvotedBy) = 1

\* C2 as stated: whatever vote the citizen in session holds, two
\* consecutive voteReport calls in one direction leave every report's vote
\* sets and counters as they were; and up then down, from no vote, leaves
\* the voter as one downvote and no upvote.
C2_DoubleVoteRestores ==
    \A reportId \in ReportIds, vote \in Votes :
        VoteViews(voteReport(voteReport(store, reportId, vote),
                             reportId, vote).reports)
            = VoteViews(reports)

HoldsVote(report, uid, vote) ==
    IF vote = "up" THEN Includes(report.upvotedBy, uid)
    ELSE Includes(report.downvotedBy, uid)

Opposite(vote) == IF vote = "up" THEN "down" ELSE "up"

\* C2 as amended: two consecutive voteReport calls in one direction restore
\* the vote sets and counters of the report when the voter does not hold
\* the opposite vote before the first call; when the voter does, the two
\* calls leave the voter with no vote at all.  Up then down, from no vote,
\* leaves the voter as exactly one downvote and no upvote.
C2_DoubleVoteAmended ==
    \A reportId \in ReportIds, vote \in Votes :
        (~IsNull(currentUser) /\ HasReport(reports, reportId)) =>
            LET uid == currentUser.id
                before == FindReport(reports, reportId)
                twice == FindReport(
                    voteReport(voteReport(store, reportId, vote),
                               reportId, vote).reports, reportId)
                upDown == FindReport(
                    voteReport(voteReport(store, reportId, "up"),
                               reportId, "down").reports, reportId)
            IN  /\ ~HoldsVote(before, uid, Opposite(vote))
                      => VoteView(twice) = VoteView(before)
                /\ HoldsVote(before, uid, Opposite(vote))
                      => /\ ~HoldsVote(twice, uid, "up")
                         /\ ~HoldsVote(twice, uid, "down")
                         /\ VoteView(twice) # VoteView(before)
                /\ (~HoldsVote(before, uid, "up") /\ ~HoldsVote(before, uid, "down"))
                      => /\ Len(SelectSeq(upDown.downvotedBy,
                                          LAMBDA x : x = uid)) = 1
                         /\ ~HoldsVote(upDown, uid, "up")
                         /\ upDown.downvotes = before.downvotes + 1
                         /\ upDown.upvotes = before.upvotes

\* The citizen in session holds a vote on a report on which another
\* citizen has voted too.
C2_Witness ==
    /\ ~IsNull(currentUser)
    /\ \E r \in Range(reports) :
          /\ HoldsVote(r, currentUser.id, "down")
          /\ Len(r.upvotedBy) = 1

Terminal(v) == v = "verified" \/ v = "rejected"

\* C3: once the verification of a report is 'verified' or 'rejected', no
\* step changes it again for as long as the report exists.
C3_VerificationOnce ==
    [][\A i \in 1..Len(reports) :
          (Terminal(reports[i].verified) /\ HasReport(reports', reports[i].id))
              => FindReport(reports', reports[i].id).verified
                     = reports[i].verified]_vars

\* C4: updateReport with a verification value, on a report whose
\* verification is already 'verified' or 'rejected', leaves the whole store
\* as it is: the report, the points of the reporter and the notifications.
C4_ReverifyLeavesStore ==
    \A r \in Range(reports), v \in VerifiedValues :
        Terminal(r.verified)
            => updateReport(store, r.id, v, Absent, notifClock) = store

VerifiedBy(id) ==
    {i \in 1..Len(reports) :
        reports[i].userId = id /\ reports[i].verified = "verified"}

\* C5: the points of every citizen of the directory are the number of
\* reports of that citizen that exist with verification 'verified'.
C5_PointsCountVerified ==
    \A u \in Range(authenticatedUsers) :
        u.userData.kind = "user"
            => u.userData.points = Cardinality(VerifiedBy(u.userData.id))

\* C6: for every report whose verification is 'pending' and whose reporter
\* is in the directory, updateReport to 'verified' gives the reporter exactly
\* one point more, and deleteReport of the report right after gives the
\* reporter the points and the badge held before the verification, in the
\* directory and, for the citizen in session, in currentUser.
C6_VerifyThenDelete ==
    \A r \in Range(reports) :
        (r.verified = "pending" /\ OwnerIndex(authenticatedUsers, r.userId) # 0)
            => LET i == OwnerIndex(authenticatedUsers, r.userId)
                   before == authenticatedUsers[i].userData
                   verifiedStore ==
                       updateReport(store, r.id, "verified", Absent, notifClock)
                   deletedStore == deleteReport(verifiedStore, r.id)
                   after == deletedStore.authenticatedUsers[i].userData
               IN  /\ verifiedStore.authenticatedUsers[i].userData.points
                          = before.points + 1
                   /\ after.points = before.points
                   /\ after.badge = before.badge
                   /\ ~HasReport(deletedStore.reports, r.id)
                   /\ (~IsNull(currentUser) /\ currentUser.id = r.userId)
                          => /\ verifiedStore.currentUser.points
                                    = currentUser.points + 1
                             /\ deletedStore.currentUser = currentUser

\* A pending report of a citizen who is one point short of the bronze
\* badge: the verification crosses the threshold and the deletion crosses
\* it back.
C6_Witness ==
    \E r \in Range(reports) :
        /\ r.verified = "pending"
        /\ OwnerIndex(authenticatedUsers, r.userId) # 0
        /\ authenticatedUsers[OwnerIndex(authenticatedUsers, r.userId)]
               .userData.points = BronzeAt - 1

CitizenProfiles ==
    {u.userData : u \in {e \in Range(authenticatedUsers) :
                            e.userData.kind = "user"}}
    \cup (IF currentUser.kind = "user" THEN {currentUser} ELSE {})

BadgeTable(points) ==
    IF points < 25 THEN "none"
    ELSE IF points <= 49 THEN "bronze"
    ELSE IF points <= 99 THEN "silver"
    ELSE "gold"

LedgerProfile == authenticatedUsers[LedgerIndex].userData

\* C8: getBadge is 'none' below 25, 'bronze' from 25 to 49, 'silver' from
\* 50 to 99 and 'gold' from 100 on, and the badges computed inline by the
\* award and by the revoke are getBadge of the points they store.
C8_GetBadgeBoundaries ==
    /\ getBadge(LedgerProfile.points) = BadgeTable(LedgerProfile.points)
    /\ LedgerProfile.badge = getBadge(LedgerProfile.points)
    /\ AwardedUser(LedgerProfile).badge = getBadge(AwardedUser(LedgerProfile).points)
    /\ AwardedUser(LedgerProfile).points = LedgerProfile.points + 1
    /\ RevokedUser(LedgerProfile).badge = getBadge(RevokedUser(LedgerProfile).points)
    /\ RevokedUser(LedgerProfile).points
           = (IF LedgerProfile.points = 0 THEN 0 ELSE LedgerProfile.points - 1)

\* The ledger has reached the gold threshold.
C8_Witness ==
    /\ LedgerProfile.points = GoldAt
    /\ LedgerProfile.badge = "gold"

\* The changes of fixingStatus the life cycle allows.
FixingStep(pre, post) ==
    \/ post = pre
    \/ pre = "pending" /\ post \in {"in_progress", "rejected"}
    \/ pre = "in_progress" /\ post \in {"resolved", "rejected"}

\* C9: in every step the fixingStatus of a report that stays in the store
\* is unchanged or moves pending -> in_progress, in_progress -> resolved,
\* pending -> rejected or in_progress -> rejected; nothing leaves 'resolved'
\* or 'rejected', nothing skips from 'pending' to 'resolved', nothing goes
\* back to 'pending'.
C9_FixingForwardOnly ==
    [][\A i \in 1..Len(reports) :
          HasReport(reports', reports[i].id)
              => FixingStep(reports[i].fixingStatus,
                            FindReport(reports', reports[i].id).fixingStatus)]_vars

Count(ids, id) == Len(SelectSeq(ids, LAMBDA x : x = id))

Compliments(ns) == Len(SelectSeq(ns, LAMBDA n : n.type = "compliment"))

\* C10: for a 'resolved' notification that names the authority who
\* resolved the report and that its citizen has not yet complimented, two
\* sendComplimentToGov calls by that citizen leave the citizen once in
\* complimentedBy and make one compliment notification; the second call
\* changes nothing.
C10_ComplimentOnce ==
    \A notifId \in NotifIds, userId \in CitizenIds :
        (/\ HasNotif(notifications, notifId)
         /\ FindNotif(notifications, notifId).type = "resolved"
         /\ FindNotif(notifications, notifId).govUserId # NullId
         /\ FindNotif(notifications, notifId).userId = userId
         /\ ~Includes(FindNotif(notifications, notifId).complimentedBy, userId))
            => LET once == sendComplimentToGov(store, notifId, userId, notifClock)
                   twice == sendComplimentToGov(once, notifId, userId,
                                                notifClock + 1)
               IN  /\ Count(FindNotif(twice.notifications, notifId).complimentedBy,
                            userId) = 1
                   /\ Compliments(twice.notifications)
                          = Compliments(notifications) + 1
                   /\ twice = once

\* C11: sendComplimentToGov on a notification whose type is not 'resolved'
\* leaves the store as it is: no complimentedBy changes and no compliment
\* notification is made, whoever the notification is addressed to.
C11_ComplimentNeedsResolved ==
    \A notifId \in NotifIds, userId \in CitizenIds :
        (/\ HasNotif(notifications, notifId)
         /\ FindNotif(notifications, notifId).type # "resolved")
            => sendComplimentToGov(store, notifId, userId, notifClock) = store

\* The identity in session: the authority of an authority session, the
\* citizen otherwise.
SessionId == IF isGovUser THEN govUser.id ELSE currentUser.id

\* The notification is addressed to the identity in session: to that
\* citizen by userId, to that authority by govUserId when no citizen is
\* named.
AddressedToSession(n) ==
    /\ SessionId # NullId
    /\ IF isGovUser THEN n.userId = NullId /\ n.govUserId = SessionId
       ELSE n.userId = SessionId

\* Whether the notification n of the store is changed or dropped in ns.
Touched(ns, n) == ~Includes(ns, n)

\* C12: markNotificationRead, markAllNotificationsRead and
\* deleteNotification change or remove only notifications addressed to the
\* identity in session, and the three apply one rule: what the one marks,
\* the other deletes.
C12_OnlyOwnNotifications ==
    \A n \in Range(notifications) :
        /\ \A id \in NotifIds :
              /\ Touched(markNotificationRead(store, id).notifications, n)
                    => AddressedToSession(n)
              /\ Touched(deleteNotification(store, id).notifications, n)
                    => AddressedToSession(n)
        /\ Touched(markAllNotificationsRead(store).notifications, n)
              => AddressedToSession(n)
        /\ Marks(store, n) <=> Deletes(store, n)

BoundToAuthority(n) == n.userId = NullId /\ n.govUserId # NullId

BoundToCitizen(n) == n.userId # NullId

\* C13: the list shown to a citizen session holds no notification bound to
\* an authority, and the list shown to an authority session holds no
\* notification bound to a citizen.
C13_RoleIsolatedInbox ==
    \A n \in Range(filteredNotifications(store)) :
        IF isGovUser /\ ~IsNull(govUser)
        THEN ~BoundToCitizen(n)
        ELSE ~BoundToAuthority(n)

\* The notifications a call has put in front of the list.
MadeBy(s2) ==
    SubSeq(s2.notifications, 1, Len(s2.notifications) - Len(notifications))

\* The ids of the citizens with a profile, other than exceptId.
OtherCitizens(exceptId) ==
    {e.userData.id : e \in {u \in Range(authenticatedUsers) :
        ~u.isGov /\ ~IsNull(u.userData) /\ u.userData.id # exceptId}}

\* The ids of the authorities with an office within the radius of loc,
\* other than exceptId.
AuthoritiesNear(loc, exceptId) ==
    {e.userData.id : e \in {u \in Range(authenticatedUsers) :
        /\ u.isGov /\ ~IsNull(u.userData) /\ u.userData.id # exceptId
        /\ u.userData.location.defined
        /\ WithinRadius(loc, u.userData.location)}}

\* C14: addReport by the citizen in session makes 'new_report'
\* notifications for exactly these recipients, one each: every citizen with
\* a profile other than the reporter, by userId, and every authority whose
\* office is within 5 km of the report, by govUserId; the reporter gets
\* none; the office of gov@test.com is within 5 km of the first report
\* location (1.4 km) and not of the second (21 km).
C14_NewReportFanOut ==
    \A loc \in ReportLocations :
        ~IsNull(currentUser) =>
            LET id == <<"report", reportClock + 1>>
                made == MadeBy(addReport(store, id, loc, notifClock))
                citizens == OtherCitizens(currentUser.id)
                authorities == AuthoritiesNear(loc, currentUser.id)
            IN  /\ \A n \in Range(made) :
                      /\ n.type = "new_report" /\ n.reportId = id /\ ~n.read
                      /\ \/ n.userId \in citizens /\ n.govUserId = NullId
                         \/ n.govUserId \in authorities /\ n.userId = NullId
                      /\ n.userId # currentUser.id
                /\ \A c \in citizens :
                      Cardinality({i \in 1..Len(made) : made[i].userId = c}) = 1
                /\ \A g \in authorities :
                      Cardinality({i \in 1..Len(made) : made[i].govUserId = g}) = 1
                /\ Len(made) = Cardinality(citizens) + Cardinality(authorities)
                /\ <<"test-gov", 1>> \in AuthoritiesNear(Loc(4070, -7400), NullId)
                /\ <<"test-gov", 1>> \notin AuthoritiesNear(Loc(4090, -7400), NullId)

\* A report has been added near the office of gov@test.com: that authority
\* and the other citizen hold its 'new_report' notifications, and the far
\* authorities hold none.
C14_Witness ==
    \E r \in Range(reports) :
        /\ \E n \in Range(notifications) :
              /\ n.type = "new_report" /\ n.reportId = r.id
              /\ n.govUserId = <<"test-gov", 1>>
        /\ \E n \in Range(notifications) :
              /\ n.type = "new_report" /\ n.reportId = r.id
              /\ n.userId # NullId /\ n.userId # r.userId
        /\ \A n \in Range(notifications) : n.govUserId # <<"gov-admin", 1>>
        /\ \A n \in Range(notifications) : n.userId # r.userId

\* C15: updateReport to fixingStatus 'resolved' by the authority in session
\* makes exactly: one 'resolved' notification for the reporter, naming the
\* resolver and with complimentedBy empty; one 'info' notification per
\* citizen other than the reporter; one 'info' notification per authority
\* within 5 km of the report other than the resolver.  The resolver and the
\* authorities out of range get none.
C15_ResolvedFanOut ==
    \A r \in Range(reports) :
        (isGovUser /\ ~IsNull(govUser)) =>
            LET s2 == updateReport(store, r.id, Absent, "resolved", notifClock)
                made == MadeBy(s2)
                citizens == OtherCitizens(r.userId)
                authorities == AuthoritiesNear(r.location, govUser.id)
            IN  /\ FindReport(s2.reports, r.id).fixingStatus = "resolved"
                /\ \A n \in Range(made) :
                      /\ n.reportId = r.id /\ ~n.read /\ n.complimentedBy = << >>
                      /\ \/ /\ n.type = "resolved"
                            /\ n.userId = r.userId /\ n.govUserId = govUser.id
                         \/ /\ n.type = "info"
                            /\ n.userId \in citizens /\ n.govUserId = NullId
                         \/ /\ n.type = "info"
                            /\ n.govUserId \in authorities /\ n.userId = NullId
                /\ Cardinality({i \in 1..Len(made) : made[i].type = "resolved"}) = 1
                /\ \A c \in citizens :
                      Cardinality({i \in 1..Len(made) : made[i].userId = c}) = 1
                /\ \A g \in authorities :
                      Cardinality({i \in 1..Len(made) : made[i].govUserId = g}) = 1
                /\ Len(made) = 1 + Cardinality(citizens) + Cardinality(authorities)
                /\ govUser.id \notin authorities

\* gov@test.com is in session with a report in the store that has another
\* citizen to tell and another authority within 5 km.
C15_Witness ==
    /\ isGovUser
    /\ govUser.id = <<"test-gov", 1>>
    /\ \E r \in Range(reports) :
          /\ r.fixingStatus # "resolved"
          /\ OtherCitizens(r.userId) # {}
          /\ AuthoritiesNear(r.location, govUser.id) = {<<"gov", 2>>}

\* C16: while no authority is in session (a citizen is, or nobody),
\* updateReport leaves the store as it is: no verification or fixing status
\* changes, no point is awarded, no notification is made.
C16_OnlyAuthorityUpdates ==
    \A r \in Range(reports),
       v \in VerifiedValues \cup {Absent}, f \in FixingValues \cup {Absent} :
        (~isGovUser /\ (v # Absent \/ f # Absent))
            => updateReport(store, r.id, v, f, notifClock) = store

\* C17: deleteReport by an identity that is neither the reporter of the
\* report nor an authority (another citizen, or nobody in session) leaves
\* the reports and the points of every citizen as they are.
C17_DeleteByReporterOrAuthority ==
    \A r \in Range(reports) :
        (~isGovUser /\ currentUser.id # r.userId)
            => LET s2 == deleteReport(store, r.id)
               IN  /\ s2.reports = reports
                   /\ s2.authenticatedUsers = authenticatedUsers

\* C18: updateReport with verified 'rejected' and no fixing status stores
\* fixingStatus 'rejected' with it, in the same step; with a fixing status
\* in the same call, the report gets the fixing status supplied.
C18_RejectedSync ==
    \A r \in Range(reports), f \in FixingValues \cup {Absent} :
        LET s2 == updateReport(store, r.id, "rejected", f, notifClock)
            after == FindReport(s2.reports, r.id)
        IN  /\ after.verified = "rejected"
            /\ after.fixingStatus = (IF f = Absent THEN "rejected" ELSE f)

\* A report has been rejected, its fixing status is 'rejected' with it and
\* its reporter has been told.
C18_Witness ==
    \E r \in Range(reports) :
        /\ r.verified = "rejected"
        /\ r.fixingStatus = "rejected"
        /\ \E n \in Range(notifications) :
              n.reportId = r.id /\ n.type = "info" /\ n.userId = r.userId

\* The notifications of the given type that the report has in ns.
NotifsOf(ns, type, reportId) ==
    {i \in 1..Len(ns) : ns[i].type = type /\ ns[i].reportId = reportId}

\* How many of them are for the citizen c, and how many for the authority g.
CitizenCount(ns, type, reportId, c) ==
    Cardinality({i \in NotifsOf(ns, type, reportId) : ns[i].userId = c})

AuthorityCount(ns, type, reportId, g) ==
    Cardinality({i \in NotifsOf(ns, type, reportId) : ns[i].govUserId = g})

\* How many times the report was resolved, and how many times by another
\* than the authority g.
ResolvedCount(ns, reportId) ==
    Cardinality(NotifsOf(ns, "resolved", reportId))

ResolvedByOthers(ns, reportId, g) ==
    Cardinality({i \in NotifsOf(ns, "resolved", reportId) : ns[i].govUserId # g})

\* Every fan-out in the notifications ns of the reports rs is whole: a
\* report has its 'new_report' notification for every other citizen and
\* every authority in range, and for each of its 'resolved' notifications
\* an 'info' for every other citizen and for every authority in range other
\* than the resolver.
FanOutsWhole(rs, ns) ==
    \A r \in Range(rs) :
        /\ \A c \in OtherCitizens(r.userId) :
              /\ CitizenCount(ns, "new_report", r.id, c) = 1
              /\ CitizenCount(ns, "info", r.id, c) = ResolvedCount(ns, r.id)
        /\ \A g \in AuthoritiesNear(r.location, r.userId) :
              /\ AuthorityCount(ns, "new_report", r.id, g) = 1
              /\ AuthorityCount(ns, "info", r.id, g)
                    = ResolvedByOthers(ns, r.id, g)

\* The points of the owner of the report, in the directory users.
OwnerPoints(users, r) == users[OwnerIndex(users, r.userId)].userData.points

\* C19: every step is whole.  The step that makes a report 'verified' also
\* gives its reporter the point; the step that removes a 'verified' report
\* also takes the point back; and after every step each fan-out of
\* 'new_report' and of 'resolved' is there in full.
C19_AtomicSteps ==
    [][/\ \A r \in Range(reports) :
             (OwnerIndex(authenticatedUsers, r.userId) # 0) =>
                /\ (/\ r.verified # "verified"
                    /\ HasReport(reports', r.id)
                    /\ FindReport(reports', r.id).verified = "verified")
                      => OwnerPoints(authenticatedUsers', r)
                             = OwnerPoints(authenticatedUsers, r) + 1
                /\ (r.verified = "verified" /\ ~HasReport(reports', r.id))
                      => OwnerPoints(authenticatedUsers', r)
                             = revokePoints(OwnerPoints(authenticatedUsers, r))
       /\ FanOutsWhole(reports', notifications')]_vars

\* A report of the registered citizen has been verified: the citizen holds
\* the point of it, and the other citizen the 'new_report' notification.
C19_Witness ==
    \E r \in Range(reports) :
        /\ r.verified = "verified"
        /\ OwnerIndex(authenticatedUsers, r.userId) # 0
        /\ OwnerPoints(authenticatedUsers, r) = 1
        /\ OtherCitizens(r.userId) # {}
        /\ \A c \in OtherCitizens(r.userId) :
              CitizenCount(notifications, "new_report", r.id, c) = 1

\* C20: for a report whose verification is 'pending', updateReport to
\* 'verified' and deleteReport end the same way in both orders.  Verify
\* first: the point is awarded, then taken back.  Delete first: the verify
\* finds no report, awards nothing and makes no notification.  In both the
\* report is gone and the reporter has the points held before.
C20_VerifyDeleteSerial ==
    \A r \in Range(reports) :
        (r.verified = "pending" /\ OwnerIndex(authenticatedUsers, r.userId) # 0)
            => LET verifiedFirst ==
                       updateReport(store, r.id, "verified", Absent, notifClock)
                   thenDeleted == deleteReport(verifiedFirst, r.id)
                   deletedFirst == deleteReport(store, r.id)
                   thenVerified ==
                       updateReport(deletedFirst, r.id, "verified", Absent,
                                    notifClock)
               IN  /\ OwnerPoints(verifiedFirst.authenticatedUsers, r)
                          = OwnerPoints(authenticatedUsers, r) + 1
                   /\ OwnerPoints(thenDeleted.authenticatedUsers, r)
                          = OwnerPoints(authenticatedUsers, r)
                   /\ ~HasReport(thenDeleted.reports, r.id)
                   /\ thenVerified = deletedFirst
                   /\ OwnerPoints(thenVerified.authenticatedUsers, r)
                          = OwnerPoints(authenticatedUsers, r)
                   /\ ~HasReport(thenVerified.reports, r.id)
                   /\ thenVerified.authenticatedUsers
                          = thenDeleted.authenticatedUsers
                   /\ thenVerified.reports = thenDeleted.reports

\* An authority is in session and the store holds a pending report of the
\* registered citizen, who has no point yet.
C20_Witness ==
    /\ isGovUser
    /\ \E r \in Range(reports) :
          /\ r.verified = "pending"
          /\ r.userId = <<"user", 1>>
          /\ OwnerIndex(authenticatedUsers, r.userId) # 0
          /\ OwnerPoints(authenticatedUsers, r) = 0

\* The report ids a caller can pass that no report of the store has: those
\* of deleted reports and one that was never given out.
MissingReportIds ==
    {<<"report", n>> : n \in 1..(MaxReports + 1)}
        \ {reports[i].id : i \in 1..Len(reports)}

\* The same for notifications.
MissingNotifIds ==
    {<<"notif", n>> : n \in 1..(MaxNotifs + 1)}
        \ {notifications[i].id : i \in 1..Len(notifications)}

\* The store s2 has the reports, the directory with every balance and
\* badge, the profile in session and the notifications of the store.
SameEntities(s2) ==
    /\ s2.reports = reports
    /\ s2.authenticatedUsers = authenticatedUsers
    /\ s2.currentUser = currentUser
    /\ s2.notifications = notifications

\* C21: updateReport, deleteReport and voteReport with a report id that no
\* report has, and sendComplimentToGov, markNotificationRead and
\* deleteNotification with a notification id that no notification has, leave
\* the reports, every balance and badge and the notification list exactly
\* as they were.
C21_FailedCallsChangeNothing ==
    /\ \A reportId \in MissingReportIds :
          /\ \A v \in VerifiedValues \cup {Absent},
                f \in FixingValues \cup {Absent} :
                SameEntities(updateReport(store, reportId, v, f, notifClock))
          /\ SameEntities(deleteReport(store, reportId))
          /\ \A vote \in Votes : SameEntities(voteReport(store, reportId, vote))
    /\ \A notifId \in MissingNotifIds :
          /\ \A userId \in CitizenIds :
                SameEntities(sendComplimentToGov(store, notifId, userId,
                                                 notifClock))
          /\ SameEntities(markNotificationRead(store, notifId))
          /\ SameEntities(deleteNotification(store, notifId))

\* A citizen is in session with a verified report in the store and an
\* unread notification that the session could mark and delete.
C21_Witness ==
    /\ ~IsNull(currentUser)
    /\ \E r \in Range(reports) : r.verified = "verified"
    /\ \E n \in Range(notifications) :
          ~n.read /\ Marks(store, n) /\ Deletes(store, n)

\* The balances of the directory, entry by entry.
PointsOf(users) == [i \in 1..Len(users) |-> users[i].userData.points]

\* The balances with one point more for entry i.
PointsPlusOne(users, i) ==
    [PointsOf(users) EXCEPT ![i] = @ + 1]

\* The balances with one point less for entry i, and none less than zero.
PointsMinusOne(users, i) ==
    [PointsOf(users) EXCEPT ![i] = IF @ = 0 THEN 0 ELSE @ - 1]

\* The notifications a caller can hand to addNotification.
NotifInputs ==
    {Notif(type, NullId, userId, NullId) :
        type \in {"info", "resolved"}, userId \in CitizenIds \cup {NullId}}

C23_AnyIdentityVotes ==
    \A r \in Range(reports), vote \in Votes :
        isLoggedIn =>
            /\ voteReport(store, r.id, vote).reports # reports
            /\ LET after == FindReport(voteReport(store, r.id, vote).reports, r.id)
               IN  HoldsVote(after, SessionId, vote)
                       = ~HoldsVote(r, SessionId, vote)

\* The profile is that of a citizen of the directory.
KnownCitizen(u) ==
    /\ u.kind = "user"
    /\ \E e \in Range(authenticatedUsers) : ~e.isGov /\ e.userData = u

\* C24: with a citizen of the directory in session, addReport puts one
\* report in front of the list, with that citizen as reporter, verification
\* and fixing status 'pending', no voter and both counters at zero; with no
\* citizen in session it leaves the store as it is, reports and
\* notifications included.
C24_AddReportByCitizen ==
    \A loc \in ReportLocations :
        LET id == <<"report", reportClock + 1>>
            s2 == addReport(store, id, loc, notifClock)
        IN  IF IsNull(currentUser) THEN s2 = store
            ELSE /\ KnownCitizen(currentUser)
                 /\ Len(s2.reports) = Len(reports) + 1
                 /\ SubSeq(s2.reports, 2, Len(s2.reports)) = reports
                 /\ s2.reports[1].id = id
                 /\ s2.reports[1].userId = currentUser.id
                 /\ s2.reports[1].location = loc
                 /\ s2.reports[1].verified = "pending"
                 /\ s2.reports[1].fixingStatus = "pending"
                 /\ s2.reports[1].upvotedBy = << >>
                 /\ s2.reports[1].downvotedBy = << >>
                 /\ s2.reports[1].upvotes = 0
                 /\ s2.reports[1].downvotes = 0

\* An authority is in session, with the report a citizen has just added:
\* pending, without votes, and announced to that authority.
C24_Witness ==
    /\ isGovUser
    /\ IsNull(currentUser)
    /\ \E r \in Range(reports) :
          /\ r.verified = "pending" /\ r.fixingStatus = "pending"
          /\ r.upvotes = 0 /\ r.downvotes = 0
          /\ r.userId = <<"test-citizen", 1>>
          /\ \E n \in Range(notifications) :
                n.type = "new_report" /\ n.reportId = r.id
                    /\ n.govUserId = govUser.id

\* C25: the directory of the store after a page load holds every seed
\* account with its builtin entry (password, role and profile), whatever
\* the persisted directory holds under that email, and every persisted
\* account of another email as persisted.
C25_SeedsWinOnLoad ==
    LET loaded == rehydrate(store).authenticatedUsers
    IN  /\ \A i \in 1..Len(defaultAuthenticatedUsers) :
              /\ HasAuth(loaded, defaultAuthenticatedUsers[i].email)
              /\ loaded[AuthIndex(loaded, defaultAuthenticatedUsers[i].email)]
                     = defaultAuthenticatedUsers[i]
        /\ \A e \in Range(authenticatedUsers) :
              e.email \notin SeedEmails => e \in Range(loaded)

\* C26: sendComplimentToGov on a 'resolved' notification, with the id of a
\* citizen other than the one the notification is addressed to, leaves the
\* store as it is: nobody is added to complimentedBy and no compliment
\* notification is made.
C26_OnlyReporterThanks ==
    \A notifId \in NotifIds, userId \in CitizenIds :
        (/\ HasNotif(notifications, notifId)
         /\ FindNotif(notifications, notifId).type = "resolved"
         /\ FindNotif(notifications, notifId).userId # userId)
            => LET s2 == sendComplimentToGov(store, notifId, userId, notifClock)
               IN  /\ FindNotif(s2.notifications, notifId).complimentedBy
                          = FindNotif(notifications, notifId).complimentedBy
                   /\ Compliments(s2.notifications) = Compliments(notifications)

\* The 'resolved' notifications of ns.
ResolvedNotifs(ns) == {n \in Range(ns) : n.type = "resolved"}

\* C27: the compliment goes to the authority who resolved the report, and
\* to nobody else.  In every step, a 'resolved' notification that is new
\* names the authority in session, who made the change, and one that was
\* there keeps the authority it names; and after every step, the first
\* sendComplimentToGov of the reporter on a 'resolved' notification made by
\* an authority adds the reporter to complimentedBy and adds exactly one
\* notification, at the end of the list: a 'compliment' for that authority,
\* with no citizen named.
C27_ComplimentToResolver ==
    [][/\ \A n \in ResolvedNotifs(notifications') :
             IF HasNotif(notifications, n.id)
             THEN n.govUserId = FindNotif(notifications, n.id).govUserId
             ELSE n.govUserId = govUser.id
       /\ \A n \in ResolvedNotifs(notifications') :
             (n.govUserId # NullId /\ ~Includes(n.complimentedBy, n.userId)) =>
                LET s2 == sendComplimentToGov(storeNext, n.id, n.userId,
                                              notifClock')
                    last == s2.notifications[Len(s2.notifications)]
                IN  /\ Includes(FindNotif(s2.notifications, n.id).complimentedBy,
                                n.userId)
                    /\ Len(s2.notifications) = Len(notifications') + 1
                    /\ last.type = "compliment"
                    /\ last.govUserId = n.govUserId
                    /\ last.userId = NullId
                    /\ Compliments(s2.notifications)
                           = Compliments(notifications') + 1]_vars

\* gov@test.com resolved a report, its reporter said thanks, and the
\* compliment is there for gov@test.com.
C27_Witness ==
    /\ \E n \in ResolvedNotifs(notifications) :
          /\ n.govUserId = <<"test-gov", 1>>
          /\ Includes(n.complimentedBy, n.userId)
    /\ \E n \in Range(notifications) :
          /\ n.type = "compliment"
          /\ n.govUserId = <<"test-gov", 1>>
          /\ n.userId = NullId

\* C28: in every state of the session, currentUser and govUser are not
\* both there, isGovUser is true whenever govUser is there and false
\* whenever currentUser is there, and while isLoggedIn is false there is
\* neither profile and isGovUser is false.
C28_SessionShape ==
    /\ IsNull(currentUser) \/ IsNull(govUser)
    /\ ~IsNull(govUser) => isGovUser
    /\ ~IsNull(currentUser) => ~isGovUser
    /\ ~isLoggedIn => IsNull(currentUser) /\ IsNull(govUser) /\ ~isGovUser

\* The entries of the directory under this email: one, or none.
EntriesOf(email) == {e \in Range(authenticatedUsers) : e.email = email}

\* C29: register with an email of the directory, a seed email included,
\* returns false, and signIn with an email the directory does not have, or
\* with a password other than the one stored, returns false; both leave the
\* store as it is: the directory with every entry and password, and the
\* session.
C29_RefusedLoginChangesNothing ==
    \A email \in Emails, password \in Passwords :
        /\ EntriesOf(email) # {} =>
              \A isGov \in BOOLEAN :
                  /\ ~registerOk(store, email)
                  /\ register(store, email, password, isGov) = store
        /\ (\A e \in EntriesOf(email) : e.password # password) =>
              /\ ~signInOk(store, email, password)
              /\ signIn(store, email, password) = store

\* The citizen who registered as new@mail.com is in session with a profile:
\* a register with that email, or with a seed email, is refused, and so is
\* a signIn with the password of another account.
C29_Witness ==
    /\ isLoggedIn
    /\ userEmail = "new@mail.com"
    /\ ~IsNull(currentUser)
    /\ \E e \in EntriesOf("new@mail.com") : e.password = "secret"
    /\ EntriesOf("dept@mail.com") = {}

\* C30: while a citizen is logged in, currentUser is the profile the
\* directory holds under userEmail: the same id, points and badge.
C30_SessionMatchesLedger ==
    (isLoggedIn /\ ~IsNull(currentUser)) =>
        /\ HasAuth(authenticatedUsers, userEmail)
        /\ LET userData ==
                   authenticatedUsers[AuthIndex(authenticatedUsers, userEmail)]
                       .userData
           IN  /\ currentUser.id = userData.id
               /\ currentUser.points = userData.points
               /\ currentUser.badge = userData.badge

\* The registered citizen, who started one point short of bronze, is in
\* session with a verified report and holds the bronze badge.
C30_Witness ==
    /\ isLoggedIn
    /\ currentUser.id = <<"user", 1>>
    /\ currentUser.points = BronzeAt
    /\ currentUser.badge = "bronze"
    /\ \E r \in Range(reports) :
          r.userId = currentUser.id /\ r.verified = "verified"

=============================================================================
